---------------------------- MODULE Spec2Model ----------------------------
(***************************************************************************)
(* A model of the LBS binary codec: the value codecs of lbs/src/read.rs     *)
(* and lbs/src/write.rs, the error type of lbs/src/error.rs and the code    *)
(* that lbs_derive/src/lib.rs generates for structs and enums.              *)
(*                                                                          *)
(* A stream is a sequence of bytes with a cursor (the number of bytes       *)
(* already consumed).  Option<T> values, both Rust's and the model's own,   *)
(* are sequences of length at most one: <<>> is None, <<x>> is Some(x).     *)
(* A Rust type is the sequence of its tokens, as the derive macro sees it.  *)
(* Integers of at most 16 bits are numbers; a u32 is the pair of its 16-bit  *)
(* limbs and a u64 or usize the four of them, least significant first, so   *)
(* that every value of these types has a representation.                    *)
(***************************************************************************)
EXTENDS Integers, Sequences, FiniteSets, TLC

VARIABLES wdecl, rdecl, derived, buf, pos, sent, got

vars == <<wdecl, rdecl, derived, buf, pos, sent, got>>

-----------------------------------------------------------------------------
(* Bounds of the model. *)

\* Number of fields of a writer's struct, number of variants of an enum.
MaxFields == 2
\* u64 field values range over 0..MaxVal (and one multi-byte value).
MaxVal == 1
\* Number of values written to, and read from, one stream.
MaxRecords == 2
\* Number of chunks of foreign bytes put on one stream.
MaxChunks == 4

None == <<>>
Some(x) == <<x>>

-----------------------------------------------------------------------------
(* Bytes and the stream. *)

RECURSIVE from_le_bytes(_)
\* uN::from_le_bytes: the little-endian value of a byte sequence.
from_le_bytes(bs) ==
    IF bs = <<>> THEN 0 ELSE Head(bs) + 256 * from_le_bytes(Tail(bs))

RECURSIVE to_le_bytes(_, _)
\* uN::to_le_bytes for a type of w bytes.
to_le_bytes(n, w) ==
    IF w = 0 THEN <<>> ELSE <<n % 256>> \o to_le_bytes(n \div 256, w - 1)

\* The u64 and the u32 of a number below 2^16 and below 2^31.
U64(n) == <<n, 0, 0, 0>>
U32(n) == <<n % 65536, n \div 65536>>
u32_from_le_bytes(bs) == [k \in 1..2 |-> from_le_bytes(SubSeq(bs, 2 * k - 1, 2 * k))]
u32_to_le_bytes(v) == to_le_bytes(v[1], 2) \o to_le_bytes(v[2], 2)
u64_from_le_bytes(bs) == [k \in 1..4 |-> from_le_bytes(SubSeq(bs, 2 * k - 1, 2 * k))]
u64_to_le_bytes(v) ==
    to_le_bytes(v[1], 2) \o to_le_bytes(v[2], 2)
    \o to_le_bytes(v[3], 2) \o to_le_bytes(v[4], 2)

\* io::ErrorKind::UnexpectedEof wrapped by LBSError::Io (From<io::Error>).
IoEof == [kind |-> "Io", io |-> "UnexpectedEof"]

Ok(v, p) == [ok |-> TRUE, val |-> v, pos |-> p]
Err(e, p) == [ok |-> FALSE, err |-> e, pos |-> p]

\* A panic that unwinds out of a read (no Result is returned).
Abort(m, p) == [ok |-> FALSE, err |-> [kind |-> "panic", msg |-> m], pos |-> p]

\* Read::read_exact of n bytes from stream s whose cursor is p.  On a short
\* stream the error is UnexpectedEof; pos is then where the failed read began.
read_exact(s, p, n) ==
    IF p + n > Len(s) THEN Err(IoEof, p)
    ELSE Ok(SubSeq(s, p + 1, p + n), p + n)

\* impl_read_primitive!($t, $l): $l bytes, little-endian.
read_primitive(s, p, l) ==
    LET from(b) ==
          IF ~b.ok THEN b
          ELSE IF l = 8 THEN Ok(u64_from_le_bytes(b.val), b.pos)
          ELSE IF l = 4 THEN Ok(u32_from_le_bytes(b.val), b.pos)
          ELSE Ok(from_le_bytes(b.val), b.pos)
    IN from(read_exact(s, p, l))

\* impl_write_primitive!($t): the bytes of the value, little-endian.
write_primitive(n, l) ==
    IF l = 8 THEN u64_to_le_bytes(n)
    ELSE IF l = 4 THEN u32_to_le_bytes(n)
    ELSE to_le_bytes(n, l)

\* Mutant: the ID is written big-endian.
write_field_id_be(id) == <<id \div 256, id % 256>>

\* Mutant: the ID is read as one byte.
read_field_id_u8(s, p) == read_primitive(s, p, 1)

read_field_count(s, p) == read_primitive(s, p, 2)
read_field_id(s, p) == read_primitive(s, p, 2)
write_field_count(count) == write_primitive(count, 2)
write_field_id(id) == write_primitive(id, 2)

\* io::ErrorKind::InvalidInput, the error of a failed try_into.
IoInvalidInput == [kind |-> "Io", io |-> "InvalidInput"]

\* The outcome of a write: the bytes it has put on the stream, and its error.
WOk(bs) == [ok |-> TRUE, bytes |-> bs]
WErr(e, bs) == [ok |-> FALSE, err |-> e, bytes |-> bs]

\* read_len: a u32 length prefix, as usize.
read_len(s, p) ==
    LET as_usize(b) == IF ~b.ok THEN b ELSE Ok(<<b.val[1], b.val[2], 0, 0>>, b.pos)
    IN as_usize(read_primitive(s, p, 4))

\* Mutant: the length is cast to u32 with `as`, which truncates.
write_len_truncating(l) == WOk(write_primitive(<<l[1], l[2]>>, 4))

\* write_len of a usize: try_into u32 fails on a length above u32::MAX.
write_len(l) ==
    IF l[3] # 0 \/ l[4] # 0 THEN WErr(IoInvalidInput, <<>>)
    ELSE WOk(write_primitive(<<l[1], l[2]>>, 4))

\* The length of a byte sequence of the model as a usize, and a usize as a
\* number of bytes to read: 65536 stands for every count from 65536 on, more
\* than any stream of the model holds.
len(v) == U64(Len(v))
as_count(l) == IF l[2] = 0 /\ l[3] = 0 /\ l[4] = 0 THEN l[1] ELSE 65536

-----------------------------------------------------------------------------
(* LBSError. *)

RequiredButMissing == [kind |-> "RequiredButMissing"]
UnexpectedVariant == [kind |-> "UnexpectedVariant"]
Parsing == [kind |-> "Parsing"]
InvalidTimestamp == [kind |-> "InvalidTimestamp"]
InvalidChar == [kind |-> "InvalidChar"]
WithField(id, e) == [kind |-> "WithField", field |-> id, inner |-> e]

\* Mutant: the error is returned without the field.
with_field_dropped(e, field_id) == e

\* Mutant: the field of an error that already carries one is replaced.
with_field_outermost(e, field_id) ==
    IF e.kind = "WithField" THEN WithField(field_id, e.inner)
    ELSE WithField(field_id, e)

\* Mutant: an error that already carries a field is wrapped once more.
with_field_nested(e, field_id) == WithField(field_id, e)

\* LBSError::with_field: an error that already carries a field is kept.
with_field(e, field_id) ==
    IF e.kind = "WithField" THEN e ELSE WithField(field_id, e)

RECURSIVE is_eof(_)
\* Mutant: an error that carries a field is never an end of file.
is_eof_unwrapped(e) == e.kind = "Io" /\ e.io = "UnexpectedEof"

\* LBSError::is_eof.
is_eof(e) ==
    CASE e.kind = "Io" -> e.io = "UnexpectedEof"
      [] e.kind = "WithField" -> is_eof(e.inner)
      [] OTHER -> FALSE

-----------------------------------------------------------------------------
(* Value types and their codecs (LBSRead / LBSWrite implementations). *)

TyU64 == <<"u64">>
TyString == <<"String">>
TyOption(t) == <<"Option", "<">> \o t \o <<">">>
TyBool == <<"bool">>
TyChar == <<"char">>
TyDuration == <<"Duration">>
TySystemTime == <<"SystemTime">>
TyRange(t) == <<"Range", "<">> \o t \o <<">">>
TyBox(t) == <<"Box", "<">> \o t \o <<">">>
TyStructTwo == <<"StructTwo">>
TyEnumOne == <<"EnumOne">>

\* Whether the type named by the tokens ty is Option<T>, and its T.
IsOption(ty) == Len(ty) >= 4 /\ ty[1] = "Option" /\ ty[2] = "<"
OptionOf(ty) == SubSeq(ty, 3, Len(ty) - 1)
IsRange(ty) == Len(ty) >= 4 /\ ty[1] = "Range" /\ ty[2] = "<"
RangeOf(ty) == SubSeq(ty, 3, Len(ty) - 1)
IsBox(ty) == Len(ty) >= 4 /\ ty[1] = "Box" /\ ty[2] = "<"
BoxOf(ty) == SubSeq(ty, 3, Len(ty) - 1)

\* A field declared with an ID and a type and no other argument.
Plain(id, ty) ==
    [id |-> Some(id), default |-> None, skip |-> FALSE, optional |-> FALSE, ty |-> ty]

\* The derived types that are the type of a field: StructTwo of the tests
\* (without its field of the external type Uuid) and EnumOne of the tests
\* (without its variant Four).
StructTwo == [data |-> "Struct",
              items |-> <<Plain(1, TyString), Plain(2, TyOption(TyEnumOne))>>]
EnumOne == [data |-> "Enum",
            items |-> <<[id |-> Some(0), fields |-> <<>>],
                        [id |-> Some(1), fields |-> <<>>],
                        [id |-> Some(2), fields |-> <<TyString>>]>>]
IsDerived(ty) == ty \in {TyStructTwo, TyEnumOne}
TypeDef(ty) == IF ty = TyStructTwo THEN StructTwo ELSE EnumOne

IsCont(b) == b >= 128 /\ b <= 191

RECURSIVE Utf8Valid(_)
\* String::from_utf8 accepts exactly the well-formed UTF-8 byte sequences.
Utf8Valid(bs) ==
    IF bs = <<>> THEN TRUE
    ELSE LET b == bs[1]
             n == Len(bs)
             rest(k) == Utf8Valid(SubSeq(bs, k + 1, n))
         IN CASE b <= 127 -> rest(1)
              [] b >= 194 /\ b <= 223 ->
                    n >= 2 /\ IsCont(bs[2]) /\ rest(2)
              [] b >= 224 /\ b <= 239 ->
                    /\ n >= 3
                    /\ IsCont(bs[2]) /\ IsCont(bs[3])
                    /\ (b = 224 => bs[2] >= 160)
                    /\ (b = 237 => bs[2] <= 159)
                    /\ rest(3)
              [] b >= 240 /\ b <= 244 ->
                    /\ n >= 4
                    /\ IsCont(bs[2]) /\ IsCont(bs[3]) /\ IsCont(bs[4])
                    /\ (b = 240 => bs[2] >= 144)
                    /\ (b = 244 => bs[2] <= 143)
                    /\ rest(4)
              [] OTHER -> FALSE

\* impl LBSRead for String.
read_string(s, p) ==
    LET from_utf8(b) ==
          IF ~b.ok THEN b
          ELSE IF Utf8Valid(b.val) THEN b
          ELSE Err(Parsing, b.pos)
        body(l) ==
          IF ~l.ok THEN l
          ELSE IF l.val = U64(0) THEN Ok(<<>>, l.pos)
          ELSE from_utf8(read_exact(s, l.pos, as_count(l.val)))
    IN body(read_len(s, p))

\* impl LBSWrite for str / String.  The strings of the model are shorter
\* than 2^32 bytes, so write_len does not fail here.
write_string(v) == write_len(len(v)).bytes \o v

\* Mutant: every byte but 0 is true.
read_bool_nonzero(s, p) ==
    LET from(b) == IF ~b.ok THEN b ELSE Ok(from_le_bytes(b.val) # 0, b.pos)
    IN from(read_exact(s, p, 1))

\* impl LBSRead for bool.
read_bool(s, p) ==
    LET from(b) == IF ~b.ok THEN b ELSE Ok(from_le_bytes(b.val) = 1, b.pos)
    IN from(read_exact(s, p, 1))

\* impl LBSWrite for bool.
write_bool(v) == IF v THEN write_primitive(1, 1) ELSE write_primitive(0, 1)

\* char::from_u32: the scalar values are 0..0x10FFFF without the surrogates
\* 0xD800..0xDFFF.  A char is the number of its scalar value.
from_u32(v) ==
    IF v[2] <= 16 /\ ~(v[2] = 0 /\ v[1] >= 55296 /\ v[1] <= 57343)
    THEN Some(v[1] + 65536 * v[2])
    ELSE None

\* impl LBSRead for char.
read_char(s, p) ==
    LET ok_or_else(c, at) == IF c # None THEN Ok(c[1], at) ELSE Err(InvalidChar, at)
        body(b) == IF ~b.ok THEN b ELSE ok_or_else(from_u32(b.val), b.pos)
    IN body(read_primitive(s, p, 4))

\* core::time::NANOS_PER_SEC.
NANOS_PER_SEC == 1000000000

\* nanos / NANOS_PER_SEC and nanos % NANOS_PER_SEC of a u32.  A u32 from
\* 2^31 on is 2 * NANOS_PER_SEC + 147483648 more than its lower 31 bits.
nanos_div_rem(v) ==
    IF v[2] < 32768
    THEN LET n == v[1] + 65536 * v[2]
         IN <<n \div NANOS_PER_SEC, n % NANOS_PER_SEC>>
    ELSE LET m == v[1] + 65536 * (v[2] - 32768)
             r == (m % NANOS_PER_SEC) + 147483648
         IN <<2 + (m \div NANOS_PER_SEC) + (r \div NANOS_PER_SEC),
              r % NANOS_PER_SEC>>

RECURSIVE checked_add(_, _)
\* u64::checked_add of a small number c to the limbs v: None on overflow.
checked_add(v, c) ==
    IF v = <<>> THEN (IF c = 0 THEN Some(<<>>) ELSE None)
    ELSE LET x == Head(v) + c
             rest == checked_add(Tail(v), x \div 65536)
         IN IF rest = None THEN None ELSE Some(<<x % 65536>> \o rest[1])

\* Duration::new(secs, nanos): the nanoseconds from one second on carry
\* into the seconds, and the overflow of the seconds panics.  A Duration is
\* [secs, nanos] with nanos a number below NANOS_PER_SEC.
Duration_new(secs, nanos) ==
    LET carried(sum, rem) ==
          IF sum = None THEN None ELSE Some([secs |-> sum[1], nanos |-> rem])
        body(dr) == carried(checked_add(secs, dr[1]), dr[2])
    IN body(nanos_div_rem(nanos))

\* impl LBSRead for Duration.
read_duration(s, p) ==
    LET new(d, at) ==
          IF d = None THEN Abort("overflow in Duration::new", at) ELSE Ok(d[1], at)
        with_nanos(secs, nanos) ==
          IF ~nanos.ok THEN nanos
          ELSE new(Duration_new(secs.val, nanos.val), nanos.pos)
        with_secs(secs) ==
          IF ~secs.ok THEN secs
          ELSE with_nanos(secs, read_primitive(s, secs.pos, 4))
    IN with_secs(read_primitive(s, p, 8))

\* impl LBSWrite for Duration.
write_duration(v) == write_primitive(v.secs, 8) \o write_primitive(U32(v.nanos), 4)

\* impl LBSRead for SystemTime.  A SystemTime is the Duration since
\* UNIX_EPOCH; checked_add fails beyond i64::MAX seconds (Unix).
read_system_time(s, p) ==
    LET checked_add_epoch(d) ==
          IF ~d.ok THEN d
          ELSE IF d.val.secs[4] >= 32768 THEN Err(InvalidTimestamp, d.pos)
          ELSE d
    IN checked_add_epoch(read_duration(s, p))

RECURSIVE u64_lt(_, _)
\* a < b on u64 limbs.
u64_lt(a, b) ==
    IF a = <<>> THEN FALSE
    ELSE LET n == Len(a)
         IN \/ a[n] < b[n]
            \/ a[n] = b[n] /\ u64_lt(SubSeq(a, 1, n - 1), SubSeq(b, 1, n - 1))

RECURSIVE derived_lbs_read(_, _, _)
RECURSIVE derived_lbs_write(_, _)
RECURSIVE lbs_read(_, _, _)
\* T::lbs_read(r) for the value type ty, on stream s with cursor p.
lbs_read(ty, s, p) ==
    CASE ty = TyU64 -> read_primitive(s, p, 8)
      [] ty = TyString -> read_string(s, p)
      [] IsOption(ty) ->
            LET some(v) == IF v.ok THEN Ok(Some(v.val), v.pos) ELSE v
                body(b) ==
                  IF ~b.ok THEN b
                  ELSE IF from_le_bytes(b.val) = 1
                  THEN some(lbs_read(OptionOf(ty), s, b.pos))
                  ELSE Ok(None, b.pos)
            IN body(read_exact(s, p, 1))
      [] ty = TyBool -> read_bool(s, p)
      [] ty = TyChar -> read_char(s, p)
      [] ty = TyDuration -> read_duration(s, p)
      [] ty = TySystemTime -> read_system_time(s, p)
      [] IsRange(ty) ->
            LET with_end(start, end) ==
                  IF ~end.ok THEN end
                  ELSE Ok([start |-> start.val, end |-> end.val], end.pos)
                with_start(start) ==
                  IF ~start.ok THEN start
                  ELSE with_end(start, lbs_read(RangeOf(ty), s, start.pos))
            IN with_start(lbs_read(RangeOf(ty), s, p))
      [] IsBox(ty) -> lbs_read(BoxOf(ty), s, p)
      [] IsDerived(ty) ->
            LET result(v) == IF v.ok THEN Ok(v.val, v.pos) ELSE Err(v.err, v.pos)
            IN result(derived_lbs_read(TypeDef(ty), s, p))

RECURSIVE lbs_write(_, _)
\* self.lbs_write(w) for a value v of type ty: the bytes written.  The
\* SystemTimes of the model are not before UNIX_EPOCH.
lbs_write(ty, v) ==
    CASE ty = TyU64 -> write_primitive(v, 8)
      [] ty = TyString -> write_string(v)
      [] IsOption(ty) ->
            IF v # None
            THEN write_primitive(1, 1) \o lbs_write(OptionOf(ty), v[1])
            ELSE write_primitive(0, 1)
      [] ty = TyBool -> write_bool(v)
      [] ty = TyChar -> write_primitive(U32(v), 4)
      [] ty = TyDuration -> write_duration(v)
      [] ty = TySystemTime -> write_duration(v)
      [] IsRange(ty) -> lbs_write(RangeOf(ty), v.start) \o lbs_write(RangeOf(ty), v.end)
      [] IsBox(ty) -> lbs_write(BoxOf(ty), v)
      [] IsDerived(ty) -> derived_lbs_write(TypeDef(ty), v)

RECURSIVE lbs_is_default(_, _)
\* self.lbs_is_default() for a value v of type ty (Range<u64> for ranges).
\* The derive macro generates none for the derived types.
lbs_is_default(ty, v) ==
    CASE ty = TyU64 -> v = U64(0)
      [] ty = TyString -> Len(v) = 0
      [] IsOption(ty) -> v = None
      [] ty = TyBool -> v = FALSE
      [] ty = TyChar -> U32(v) = U32(0)
      [] ty = TyDuration -> v.secs = U64(0) /\ v.nanos = 0
      [] ty = TySystemTime -> FALSE
      [] IsRange(ty) -> ~u64_lt(v.start, v.end)
      [] IsBox(ty) -> lbs_is_default(BoxOf(ty), v)

\* self.lbs_must_write(): whether a struct field holding v is written.  A
\* field of a derived type always is.
lbs_must_write(ty, v) == IF IsDerived(ty) THEN TRUE ELSE ~lbs_is_default(ty, v)

RECURSIVE Default(_)
\* Default::default() of the type ty.  StructTwo derives Default, EnumOne
\* has #[default] on its first variant; SystemTime has no Default.
Default(ty) ==
    CASE ty = TyU64 -> U64(0)
      [] ty = TyString -> <<>>
      [] IsOption(ty) -> None
      [] ty = TyBool -> FALSE
      [] ty = TyChar -> 0
      [] ty = TyDuration -> [secs |-> U64(0), nanos |-> 0]
      [] IsRange(ty) -> [start |-> Default(RangeOf(ty)), end |-> Default(RangeOf(ty))]
      [] IsBox(ty) -> Default(BoxOf(ty))
      [] ty = TyStructTwo -> <<(<<>>), None>>
      [] ty = TyEnumOne -> [variant |-> 1, inner |-> None]

-----------------------------------------------------------------------------
(* The schema generator: Meta and gather_*_meta of lbs_derive.               *)
(*                                                                          *)
(* A struct field declaration is a record                                   *)
(*   [id, default, skip, optional, ty]                                      *)
(* where id is the literal of #[lbs(id(..))] (None when absent), default    *)
(* the expression of default(..) (None when absent), skip and               *)
(* optional the flags, and ty the tokens of the field's type.  The default  *)
(* expression is kept as its tokens, as in Meta.  A field's name is its     *)
(* position in the struct.  An enum variant declaration is                  *)
(*   [id, fields]                                                           *)
(* with fields the types of its unnamed fields (<<>> for a unit variant).   *)
(***************************************************************************)

Panic(m) == [panic |-> TRUE, msg |-> m]
Accept(x) == [panic |-> FALSE, val |-> x]

\* str::starts_with on the token string of a type: the tokens are printed
\* separated by one space, so a prefix of whole tokens is matched token-wise.
starts_with(ty, prefix) ==
    Len(ty) >= Len(prefix) /\ SubSeq(ty, 1, Len(prefix)) = prefix

\* Meta::parse_id: the literal parsed as u16.
parse_id(lit) == IF lit < 65536 THEN Accept(lit) ELSE Panic("id must fit into u16")

\* Meta::validated.
validated(meta) ==
    IF meta.id = None
    THEN Panic("struct field or enum variant must have an id")
    ELSE Accept(meta)

\* The required flag Meta::from_struct_field computes.
field_required(field) ==
    /\ ~field.skip
    /\ ~field.optional
    /\ ~starts_with(field.ty, <<"Option", "<">>)
    /\ ~starts_with(field.ty, <<"core", "::", "option", "::", "Option", "<">>)
    /\ ~starts_with(field.ty, <<"::", "core", "::", "option", "::", "Option", "<">>)

\* Meta::from_struct_field for the field named name.
from_struct_field(field, name) ==
    LET id == IF field.id = None THEN Accept(None) ELSE parse_id(field.id[1])
    IN IF id.panic THEN id
       ELSE validated([id |-> IF field.id = None THEN None ELSE Some(id.val),
                       name |-> name,
                       default |-> field.default,
                       variant_fields |-> None,
                       required |-> field_required(field),
                       skip |-> field.skip])

\* Meta::from_enum_variant for the variant named name.
from_enum_variant(variant, name) ==
    LET id == IF variant.id = None THEN Accept(None) ELSE parse_id(variant.id[1])
    IN IF id.panic THEN id
       ELSE validated([id |-> IF variant.id = None THEN None ELSE Some(id.val),
                       name |-> name,
                       default |-> None,
                       variant_fields |-> IF variant.fields = <<>> THEN None
                                          ELSE Some(variant.fields),
                       required |-> TRUE,
                       skip |-> FALSE])

RECURSIVE gather_struct_loop(_, _, _)
\* Mutant: the IDs of the fields marked skip are not checked.
gather_struct_loop_noskip(fields, metas, unique_ids) ==
    IF Len(metas) = Len(fields) THEN Accept(metas)
    ELSE LET name == Len(metas) + 1
             meta == from_struct_field(fields[name], name)
         IN IF meta.panic THEN meta
            ELSE LET id == meta.val.id[1]
                 IN IF ~meta.val.skip /\ id \in unique_ids THEN Panic("duplicated id")
                    ELSE gather_struct_loop(
                           fields, Append(metas, meta.val),
                           IF meta.val.skip THEN unique_ids ELSE unique_ids \cup {id})

\* The loop of gather_struct_meta, with the metas and unique_ids so far.
gather_struct_loop(fields, metas, unique_ids) ==
    IF Len(metas) = Len(fields) THEN Accept(metas)
    ELSE LET name == Len(metas) + 1
             meta == from_struct_field(fields[name], name)
         IN IF meta.panic THEN meta
            ELSE LET id == meta.val.id[1]
                 IN IF id \in unique_ids THEN Panic("duplicated id")
                    ELSE gather_struct_loop(fields, Append(metas, meta.val),
                                            unique_ids \cup {id})

gather_struct_meta(fields) == gather_struct_loop(fields, <<>>, {})

RECURSIVE gather_enum_loop(_, _, _)
\* The loop of gather_enum_meta, with the metas and unique_ids so far.
gather_enum_loop(variants, metas, unique_ids) ==
    IF Len(metas) = Len(variants) THEN Accept(metas)
    ELSE LET name == Len(metas) + 1
             variant == variants[name]
         IN IF Len(variant.fields) > 1 THEN Panic("unsupported enum variant")
            ELSE LET meta == from_enum_variant(variant, name)
                 IN IF meta.panic THEN meta
                    ELSE LET id == meta.val.id[1]
                         IN IF id \in unique_ids THEN Panic("duplicated id")
                            ELSE gather_enum_loop(variants, Append(metas, meta.val),
                                                  unique_ids \cup {id})

gather_enum_meta(variants) == gather_enum_loop(variants, <<>>, {})

-----------------------------------------------------------------------------
(* The code generated for a struct.  A struct value is the sequence of its  *)
(* fields' values, in declaration order.                                    *)

RECURSIVE Concat(_)
\* The concatenation of a sequence of byte sequences.
Concat(ss) == IF ss = <<>> THEN <<>> ELSE Head(ss) \o Concat(Tail(ss))

\* Mutant: the fields marked skip are counted and written too.
written_fields_with_skip(fields, meta, self) ==
    LET P(i) == lbs_must_write(fields[i].ty, self[i])
    IN SelectSeq([i \in 1..Len(fields) |-> i], P)

\* Mutant: a field is left out when it equals its type's Default::default().
written_fields_nondefault(fields, meta, self) ==
    LET P(i) == ~meta[i].skip /\ self[i] # Default(fields[i].ty)
    IN SelectSeq([i \in 1..Len(fields) |-> i], P)

\* The fields the generated lbs_write counts and writes: those not marked
\* skip whose value must be written, in declaration order.
written_fields(fields, meta, self) ==
    LET P(i) == ~meta[i].skip /\ lbs_must_write(fields[i].ty, self[i])
    IN SelectSeq([i \in 1..Len(fields) |-> i], P)

\* The body generate_write_body_for_struct generates, run on self: the bytes.
generate_write_body_for_struct(fields, self) ==
    LET write(meta, w, field_count) ==
          write_field_count(field_count)
          \o (IF field_count > 0
              THEN Concat([k \in 1..Len(w) |->
                             write_field_id(meta[w[k]].id[1])
                             \o lbs_write(fields[w[k]].ty, self[w[k]])])
              ELSE <<>>)
        count(meta, w) == write(meta, w, Len(w) % 65536)
        body(meta) == count(meta, written_fields(fields, meta, self))
    IN body(gather_struct_meta(fields).val)

\* The value of a default expression of the model.
Eval(expr) ==
    CASE expr = <<"1">> -> U64(1)
      [] expr = <<"Some", "(", "1", ")">> -> Some(U64(1))

\* field_init_expressions: every field at its default expression, or at
\* Default::default() when it declares none.
field_init(fields, meta) ==
    [i \in 1..Len(fields) |->
        IF meta[i].default # None THEN Eval(meta[i].default[1])
        ELSE Default(fields[i].ty)]

\* Mutant: required_index_read is never incremented.
required_index_read_stuck(meta, i) == 1

\* The index into required_present that the read arm of field i sets ...
required_index_read(meta, i) ==
    Cardinality({j \in 1..(i - 1) : ~meta[j].skip /\ meta[j].required}) + 1
\* ... and the one that the required check of field i tests.
required_index_check(meta, i) ==
    Cardinality({j \in 1..(i - 1) : meta[j].required}) + 1

\* Mutant: the fields marked skip have an arm too.
read_arm_with_skip(meta, id) ==
    LET arms == {i \in 1..Len(meta) : meta[i].id = Some(id)}
    IN IF arms = {} THEN 0 ELSE CHOOSE i \in arms : \A j \in arms : i <= j

\* The arm of the generated match that an ID selects (0: the catch-all).
read_arm(meta, id) ==
    LET arms == {i \in 1..Len(meta) : ~meta[i].skip /\ meta[i].id = Some(id)}
    IN IF arms = {} THEN 0 ELSE CHOOSE i \in arms : \A j \in arms : i <= j

\* A struct's decode result also records the field IDs the loop has read
\* (ids) and whether the loop ran all its iterations (looped).
OkS(v, p, ids) == [ok |-> TRUE, val |-> v, pos |-> p, ids |-> ids, looped |-> TRUE]
ErrS(e, p, ids, looped) ==
    [ok |-> FALSE, err |-> e, pos |-> p, ids |-> ids, looped |-> looped]

\* required_check_expressions: the first required field that was not seen.
required_check(meta, present) ==
    LET missing == {i \in 1..Len(meta) :
                      meta[i].required /\ ~present[required_index_check(meta, i)]}
    IN IF missing = {} THEN 0 ELSE CHOOSE i \in missing : \A j \in missing : i <= j

\* Mutant: the catch-all arm passes over the eight bytes of a u64 value.
catch_all_skipping(s, p) == IF p + 8 <= Len(s) THEN p + 8 ELSE p

\* The catch-all arm `_ => {}` of the generated match, entered with the
\* cursor at p, right after the ID: the cursor after it.
catch_all(s, p) == p

RECURSIVE read_fields_loop(_, _, _, _, _, _, _, _)
\* The for loop of the generated lbs_read with n iterations left.
read_fields_loop(fields, meta, s, n, self, present, p, ids) ==
    LET check(m) ==
          IF m # 0
          THEN ErrS(with_field(RequiredButMissing, meta[m].id[1]), p, ids, TRUE)
          ELSE OkS(self, p, ids)
        assign(id, i, v) ==
          IF ~v.ok
          THEN ErrS(IF v.err.kind = "panic" THEN v.err ELSE with_field(v.err, id.val),
                    v.pos, Append(ids, id.val), FALSE)
          ELSE read_fields_loop(
                 fields, meta, s, n - 1,
                 [self EXCEPT ![i] = v.val],
                 IF meta[i].required
                 THEN [present EXCEPT ![required_index_read(meta, i)] = TRUE]
                 ELSE present,
                 v.pos, Append(ids, id.val))
        arm(id, i) ==
          IF i = 0
          THEN read_fields_loop(fields, meta, s, n - 1, self, present,
                                catch_all(s, id.pos), Append(ids, id.val))
          ELSE assign(id, i, lbs_read(fields[i].ty, s, id.pos))
        iteration(id) ==
          IF ~id.ok THEN ErrS(id.err, id.pos, ids, FALSE)
          ELSE arm(id, read_arm(meta, id.val))
    IN IF n = 0 THEN check(required_check(meta, present))
       ELSE iteration(read_field_id(s, p))

\* The body generate_read_body_for_struct generates, run on stream s at p.
generate_read_body_for_struct(fields, s, p) ==
    LET required_count(meta) == Cardinality({i \in 1..Len(meta) : meta[i].required})
        body(meta, count) ==
          IF ~count.ok THEN ErrS(count.err, count.pos, <<>>, FALSE)
          ELSE read_fields_loop(fields, meta, s, count.val,
                                field_init(fields, meta),
                                [k \in 1..required_count(meta) |-> FALSE],
                                count.pos, <<>>)
    IN body(gather_struct_meta(fields).val, read_field_count(s, p))

-----------------------------------------------------------------------------
(* The code generated for an enum.  An enum value is [variant, inner]: the  *)
(* variant's position and its payload (None for a unit variant).            *)

\* The body generate_write_body_for_enum generates, run on self: the bytes.
generate_write_body_for_enum(variants, self) ==
    LET arm(m) ==
          IF m.variant_fields # None
          THEN write_field_id(m.id[1])
               \o lbs_write(m.variant_fields[1][1], self.inner[1])
          ELSE write_field_id(m.id[1])
    IN arm(gather_enum_meta(variants).val[self.variant])

\* The body generate_read_body_for_enum generates, run on stream s at p.
generate_read_body_for_enum(variants, s, p) ==
    LET payload(i, v) ==
          IF ~v.ok THEN v ELSE Ok([variant |-> i, inner |-> Some(v.val)], v.pos)
        arm(meta, id, i) ==
          IF i = 0 THEN Err(UnexpectedVariant, id.pos)
          ELSE IF meta[i].variant_fields # None
          THEN payload(i, lbs_read(meta[i].variant_fields[1][1], s, id.pos))
          ELSE Ok([variant |-> i, inner |-> None], id.pos)
        first(arms) == IF arms = {} THEN 0 ELSE CHOOSE i \in arms : \A j \in arms : i <= j
        body(meta, id) ==
          IF ~id.ok THEN id
          ELSE arm(meta, id, first({i \in 1..Len(meta) : meta[i].id = Some(id.val)}))
    IN body(gather_enum_meta(variants).val, read_field_id(s, p))

-----------------------------------------------------------------------------
(* The derive macros and the derived implementations.  A DeriveInput is     *)
(* [data, items]: "Struct" with its field declarations or "Enum" with its   *)
(* variant declarations.                                                    *)

\* derive_lbs_write / derive_lbs_read: both gather the metas of the input
\* before they generate anything, and panic when gathering panics.
derive_lbs(input) ==
    IF input.data = "Struct" THEN gather_struct_meta(input.items)
    ELSE gather_enum_meta(input.items)

\* <T as LBSWrite>::lbs_write of a derived type: the bytes written.
derived_lbs_write(input, self) ==
    IF input.data = "Struct" THEN generate_write_body_for_struct(input.items, self)
    ELSE generate_write_body_for_enum(input.items, self)

\* <T as LBSRead>::lbs_read of a derived type on stream s at p.
derived_lbs_read(input, s, p) ==
    IF input.data = "Struct" THEN generate_read_body_for_struct(input.items, s, p)
    ELSE generate_read_body_for_enum(input.items, s, p)

-----------------------------------------------------------------------------
(* The inputs of the model. *)

\* The sequences over S of length lo..hi.
SeqsOf(S, lo, hi) == UNION {[1..n -> S] : n \in lo..hi}

FieldTypes == {TyU64, TyOption(TyU64)}

RECURSIVE TypeValues(_)
\* The values of a type that the model writes.
TypeValues(ty) ==
    CASE ty = TyU64 -> {U64(n) : n \in 0..MaxVal}
      [] ty = TyString -> {<<>>, <<97>>, <<97, 98>>}
      [] IsOption(ty) -> {None} \cup {Some(v) : v \in TypeValues(OptionOf(ty))}
      [] ty = TyBool -> BOOLEAN
      [] ty = TyChar -> {0, 97, 233}
      [] ty \in {TyDuration, TySystemTime} ->
            {[secs |-> U64(0), nanos |-> 0], [secs |-> U64(1), nanos |-> 0],
             [secs |-> U64(0), nanos |-> 1]}
      [] IsRange(ty) ->
            {[start |-> U64(0), end |-> U64(0)], [start |-> U64(0), end |-> U64(1)],
             [start |-> U64(1), end |-> U64(0)]}
      [] IsBox(ty) -> TypeValues(BoxOf(ty))
      [] ty = TyStructTwo ->
            {<<name, en>> : name \in {<<>>, <<97>>},
                            en \in {None, Some([variant |-> 1, inner |-> None]),
                                    Some([variant |-> 3, inner |-> Some(<<98>>)])}}
      [] ty = TyEnumOne ->
            {[variant |-> 1, inner |-> None], [variant |-> 2, inner |-> None],
             [variant |-> 3, inner |-> Some(<<>>)], [variant |-> 3, inner |-> Some(<<98>>)]}

\* The IDs a declaration may carry: none, a small one, or one beyond u16.
SmallIds == {Some(i) : i \in 0..MaxFields}
DeclIds == {None} \cup SmallIds \cup {Some(65536)}

\* default(expr) attributes of a field of type ty: absent, or an expression
\* whose value is not the type's Default::default().
DefaultExprs(ty) ==
    IF ty = TyU64 THEN {None, Some(<<"1">>)}
    ELSE IF IsOption(ty) THEN {None, Some(<<"Some", "(", "1", ")">>)}
    ELSE {None}

FieldDecls(ids) ==
    UNION {[id : ids, default : DefaultExprs(ty), skip : BOOLEAN,
            optional : BOOLEAN, ty : {ty}] : ty \in FieldTypes}

VariantDecls(ids) ==
    [id : ids, fields : {<<>>, <<TyU64>>, <<TyString>>, <<TyU64, TyU64>>}]

StructInputs(ids, n) ==
    {[data |-> "Struct", items |-> fs] : fs \in SeqsOf(FieldDecls(ids), 0, n)}
EnumInputs(ids, n) ==
    {[data |-> "Enum", items |-> vs] : vs \in SeqsOf(VariantDecls(ids), 0, n)}

RECURSIVE StructValues(_)
\* The values of a struct with the given fields.
StructValues(fields) ==
    IF fields = <<>> THEN {<<>>}
    ELSE {<<v>> \o rest : v \in TypeValues(Head(fields).ty),
                          rest \in StructValues(Tail(fields))}

\* The values of variant i of an enum with the given (accepted) variants.
VariantValues(variants, i) ==
    IF variants[i].fields = <<>>
    THEN {[variant |-> i, inner |-> None]}
    ELSE {[variant |-> i, inner |-> Some(v)] :
             v \in TypeValues(variants[i].fields[1])}

-----------------------------------------------------------------------------
(* The state machine.                                                       *)
(*   wdecl, rdecl  the declarations of the writer's and the reader's type   *)
(*   derived       the outcome of running the derive macros on them         *)
(*   buf, pos      the stream and the reader's cursor into it               *)
(*   sent          the values written, in order                             *)
(*   got           the results of the reads, in order, each with the cursor *)
(*                 it started from (from)                                   *)

NotDerived == [done |-> FALSE]

Compiled == derived.done /\ ~derived.w.panic /\ ~derived.r.panic

\* The compiler expands the derive macros of both types.
Derive ==
    /\ ~derived.done
    /\ derived' = [done |-> TRUE, w |-> derive_lbs(wdecl), r |-> derive_lbs(rdecl)]
    /\ UNCHANGED <<wdecl, rdecl, buf, pos, sent, got>>

\* value.lbs_write(&mut buf): the writer appends one value to the stream.
\* The reader borrows the buffer, so all writes come before the first read.
Write(v) ==
    /\ Compiled
    /\ got = <<>>
    /\ Len(sent) < MaxRecords
    /\ buf' = buf \o derived_lbs_write(wdecl, v)
    /\ sent' = Append(sent, v)
    /\ UNCHANGED <<wdecl, rdecl, derived, pos, got>>

\* T::lbs_read(&mut r): the reader decodes one value at the cursor.  Where
\* read_exact leaves the cursor when it fails is unspecified: it has read
\* nothing of the short tail, or all of it.  Nothing is read after a panic.
Read ==
    /\ Compiled
    /\ Len(got) < MaxRecords
    /\ \A k \in 1..Len(got) : IF got[k].ok THEN TRUE ELSE got[k].err.kind # "panic"
    /\ LET result(r) ==
             /\ got' = Append(got, [from |-> pos] @@ r)
             /\ IF ~r.ok /\ is_eof(r.err)
                THEN pos' \in {r.pos, Len(buf)}
                ELSE pos' = r.pos
       IN result(derived_lbs_read(rdecl, buf, pos))
    /\ UNCHANGED <<wdecl, rdecl, derived, buf, sent>>

Init ==
    /\ wdecl \in StructInputs(DeclIds, MaxFields) \cup EnumInputs(DeclIds, MaxFields)
    /\ rdecl = wdecl
    /\ derived = NotDerived
    /\ buf = <<>>
    /\ pos = 0
    /\ sent = <<>>
    /\ got = <<>>

WriteStruct ==
    /\ wdecl.data = "Struct"
    /\ \E v \in StructValues(wdecl.items) : Write(v)

WriteEnum ==
    /\ wdecl.data = "Enum"
    /\ \E i \in 1..Len(wdecl.items) :
          \E v \in VariantValues(wdecl.items, i) : Write(v)

Next ==
    \/ Derive
    \/ WriteStruct
    \/ WriteEnum
    \/ Read

Spec == Init /\ [][Next]_vars

-----------------------------------------------------------------------------
(* Schema evolution: the reader's type is another version of the writer's.  *)

Accepted(input) == ~derive_lbs(input).panic

\* s without its i-th element.
Remove(s, i) == SubSeq(s, 1, i - 1) \o SubSeq(s, i + 1, Len(s))

\* The versions of a type that the reader may have: the writer's own, one
\* with a field or variant removed, one with a field or variant added.
Evolutions(input) ==
    {input}
    \cup {[input EXCEPT !.items = Remove(@, i)] : i \in 1..Len(input.items)}
    \cup {x \in {[input EXCEPT !.items = Append(@, d)] :
                    d \in IF input.data = "Struct" THEN FieldDecls(SmallIds)
                          ELSE VariantDecls(SmallIds)} : Accepted(x)}

InitEvolve ==
    /\ wdecl \in {x \in StructInputs(SmallIds, MaxFields)
                        \cup EnumInputs(SmallIds, MaxFields) : Accepted(x)}
    /\ rdecl \in Evolutions(wdecl)
    /\ derived = NotDerived
    /\ buf = <<>>
    /\ pos = 0
    /\ sent = <<>>
    /\ got = <<>>

\* One value crosses from the old version to the new one.
WriteStructOnce == sent = <<>> /\ WriteStruct
WriteEnumOnce == sent = <<>> /\ WriteEnum

NextEvolve ==
    \/ Derive
    \/ WriteStructOnce
    \/ WriteEnumOnce
    \/ Read

SpecEvolve == InitEvolve /\ [][NextEvolve]_vars

-----------------------------------------------------------------------------
(* Direct calls of the library's functions on one stream: write_len,        *)
(* read_len, the bool codec and LBSError::with_field.  Here sent is the     *)
(* sequence of the writes with their outcomes and got the sequence of the   *)
(* reads' results and of the errors raised and tagged.                      *)

\* No derived type is involved.
NoType == [data |-> "Struct", items |-> <<>>]

\* The usize lengths passed to write_len: below and above u32::MAX.
Lengths ==
    {<<a, b, c[1], c[2]>> : a \in {0, 1, 256, 65535}, b \in {0, 1, 256, 65535},
                            c \in {<<0, 0>>, <<1, 0>>, <<0, 1>>}}

\* The field IDs passed to with_field.
FieldIds == 0..MaxFields

\* The errors a read returns before any field is attached.
BareErrors ==
    {RequiredButMissing, UnexpectedVariant, InvalidTimestamp, InvalidChar,
     IoEof, IoInvalidInput, Parsing}

InitCalls ==
    /\ wdecl = NoType
    /\ rdecl = NoType
    /\ derived = NotDerived
    /\ buf = <<>>
    /\ pos = 0
    /\ sent = <<>>
    /\ got = <<>>

\* A write of the library appends its bytes; all writes precede the reads.
CanWrite == got = <<>> /\ Len(sent) < MaxRecords

\* write_len(&mut buf, l).
WriteLen ==
    /\ CanWrite
    /\ \E l \in Lengths :
          LET r == write_len(l)
          IN /\ buf' = buf \o r.bytes
             /\ sent' = Append(sent, [call |-> "write_len", len |-> l, res |-> r])
    /\ UNCHANGED <<wdecl, rdecl, derived, pos, got>>

\* b.lbs_write(&mut buf) for a bool b.
WriteBool ==
    /\ CanWrite
    /\ \E b \in BOOLEAN :
          /\ buf' = buf \o write_bool(b)
          /\ sent' = Append(sent, [call |-> "write_bool", val |-> b,
                                   res |-> WOk(write_bool(b))])
    /\ UNCHANGED <<wdecl, rdecl, derived, pos, got>>

\* Some other writer puts one byte, any byte, on the stream.
PutByte ==
    /\ CanWrite
    /\ \E b \in 0..255 :
          /\ buf' = Append(buf, b)
          /\ sent' = Append(sent, [call |-> "write_all", val |-> b, res |-> WOk(<<b>>)])
    /\ UNCHANGED <<wdecl, rdecl, derived, pos, got>>

\* The reads need a stream that something was written to.
CanRead == sent # <<>> /\ Len(got) < MaxRecords

\* read_len(&mut r).
ReadLen ==
    /\ CanRead
    /\ LET r == read_len(buf, pos)
       IN /\ got' = Append(got, [call |-> "read_len", from |-> pos] @@ r)
          /\ pos' \in IF r.ok THEN {r.pos} ELSE {r.pos, Len(buf)}
    /\ UNCHANGED <<wdecl, rdecl, derived, buf, sent>>

\* bool::lbs_read(&mut r).
ReadBool ==
    /\ CanRead
    /\ LET r == read_bool(buf, pos)
       IN /\ got' = Append(got, [call |-> "read_bool", from |-> pos] @@ r)
          /\ pos' \in IF r.ok THEN {r.pos} ELSE {r.pos, Len(buf)}
    /\ UNCHANGED <<wdecl, rdecl, derived, buf, sent>>

\* Some read fails with a bare error.
Raise ==
    /\ sent = <<>> /\ got = <<>>
    /\ \E e \in BareErrors : got' = <<[call |-> "raise", ok |-> FALSE, err |-> e]>>
    /\ UNCHANGED <<wdecl, rdecl, derived, buf, pos, sent>>

\* err.with_field(a) on the latest error.
CallWithField ==
    /\ sent = <<>> /\ got # <<>> /\ Len(got) <= MaxRecords
    /\ \E a \in FieldIds :
          got' = Append(got, [call |-> "with_field", field_id |-> a, ok |-> FALSE,
                              err |-> with_field(got[Len(got)].err, a)])
    /\ UNCHANGED <<wdecl, rdecl, derived, buf, pos, sent>>

NextCalls ==
    \/ WriteLen
    \/ WriteBool
    \/ PutByte
    \/ ReadLen
    \/ ReadBool
    \/ Raise
    \/ CallWithField

SpecCalls == InitCalls /\ [][NextCalls]_vars

-----------------------------------------------------------------------------
(* One value of a type over all the kinds of field types crosses a stream   *)
(* that may be cut short.                                                   *)

\* The types of a struct's field; SystemTime, which has no Default, is the
\* type of a variant's field only.
KindTypes ==
    {TyU64, TyString, TyOption(TyU64), TyBool, TyChar, TyDuration,
     TyRange(TyU64), TyBox(TyU64), TyStructTwo, TyEnumOne}

\* The structs of up to n fields whose i-th field has the ID i - 1.
KindStructs(n) ==
    {[data |-> "Struct", items |-> fs] :
        fs \in {f \in SeqsOf([id : SmallIds, default : {None}, skip : BOOLEAN,
                              optional : {FALSE}, ty : KindTypes], 0, n) :
                  \A i \in 1..Len(f) : f[i].id = Some(i - 1)}}

\* The enums of up to n variants whose i-th variant has the ID i - 1.
KindEnums(n) ==
    {[data |-> "Enum", items |-> vs] :
        vs \in {f \in SeqsOf([id : SmallIds,
                              fields : {<<>>} \cup {<<ty>> : ty \in KindTypes \cup {TySystemTime}}],
                             1, n) :
                  \A i \in 1..Len(f) : f[i].id = Some(i - 1)}}

InitKinds ==
    /\ wdecl \in KindStructs(MaxFields) \cup KindEnums(MaxFields)
    /\ rdecl = wdecl
    /\ derived = NotDerived
    /\ buf = <<>>
    /\ pos = 0
    /\ sent = <<>>
    /\ got = <<>>

\* The stream loses its last byte before the reader gets it.
Truncate ==
    /\ sent # <<>> /\ got = <<>> /\ buf # <<>>
    /\ buf' = SubSeq(buf, 1, Len(buf) - 1)
    /\ UNCHANGED <<wdecl, rdecl, derived, pos, sent, got>>

NextKinds ==
    \/ Derive
    \/ WriteStructOnce
    \/ WriteEnumOnce
    \/ Truncate
    \/ Read

SpecKinds == InitKinds /\ [][NextKinds]_vars

-----------------------------------------------------------------------------
(* The reader decodes bytes that no encoder of this library has written.    *)
(* Here sent is the sequence of the chunks of bytes put on the stream.      *)

\* The types of the fields and of the variants' fields of the reader's type.
ByteTypes == {TyU64, TyString, TyChar, TyBool, TyDuration, TyStructTwo}

\* The structs of up to n fields whose i-th field has the ID i - 1.
ByteStructs(n) ==
    {[data |-> "Struct", items |-> fs] :
        fs \in {f \in SeqsOf(UNION {[id : SmallIds, default : DefaultExprs(ty),
                                     skip : BOOLEAN, optional : {FALSE}, ty : {ty}] :
                                       ty \in ByteTypes}, 0, n) :
                  \A i \in 1..Len(f) : f[i].id = Some(i - 1)}}

\* The enums of up to n variants whose i-th variant has the ID i - 1.
ByteEnums(n) ==
    {[data |-> "Enum", items |-> vs] :
        vs \in {f \in SeqsOf([id : SmallIds,
                              fields : {<<>>, <<TyDuration>>, <<TySystemTime>>,
                                        <<TyChar>>, <<TyString>>}], 1, n) :
                  \A i \in 1..Len(f) : f[i].id = Some(i - 1)}}

\* The chunks of bytes: counts, IDs and lengths, the largest u64, and a u32
\* that is NANOS_PER_SEC.
Chunks ==
    {<<0, 0>>, <<1, 0>>, <<1>>, <<0, 216, 0, 0>>,
     <<255, 255, 255, 255, 255, 255, 255, 255>>, <<0, 202, 154, 59>>}

InitBytes ==
    /\ wdecl \in ByteStructs(MaxFields) \cup ByteEnums(MaxFields)
    /\ rdecl = wdecl
    /\ derived = NotDerived
    /\ buf = <<>>
    /\ pos = 0
    /\ sent = <<>>
    /\ got = <<>>

\* Some writer that is not this library's puts a chunk on the stream.
Forge ==
    /\ Compiled
    /\ got = <<>>
    /\ Len(sent) < MaxChunks
    /\ \E c \in Chunks :
          /\ buf' = buf \o c
          /\ sent' = Append(sent, c)
    /\ UNCHANGED <<wdecl, rdecl, derived, pos, got>>

NextBytes ==
    \/ Derive
    \/ Forge
    \/ Read

SpecBytes == InitBytes /\ [][NextBytes]_vars

-----------------------------------------------------------------------------
(* Properties. *)

IsStruct(input) == input.data = "Struct"
IsEnum(input) == input.data = "Enum"

\* The set of elements of a sequence.
Elems(s) == {s[i] : i \in 1..Len(s)}

\* Two values of a derived type are equal on every field not marked skip
\* (structs), or are the same variant with the same payload (enums).
ValuesAgree(input, a, b) ==
    IF IsStruct(input)
    THEN \A i \in 1..Len(input.items) : ~input.items[i].skip => a[i] = b[i]
    ELSE a.variant = b.variant /\ a.inner = b.inner

\* The value of a struct whose every field is at its declared default.
AllDefaults(fields) ==
    [i \in 1..Len(fields) |->
        IF fields[i].default # None THEN Eval(fields[i].default[1])
        ELSE Default(fields[i].ty)]

\* C1 (as claimed): decoding the bytes of an encoded struct value with the
\* same schema succeeds and returns the value on every field not skipped.
C1_RecordRoundTrip ==
    (IsStruct(wdecl) /\ Len(sent) >= 1 /\ Len(got) >= 1)
        => got[1].ok /\ ValuesAgree(wdecl, got[1].val, sent[1])

\* C2 (as claimed): the struct value whose every field is at its declared
\* default is encoded as a field count of 0 and nothing else, and decoding
\* those bytes succeeds and returns that value.
C2_AllDefaultsRoundTrip ==
    (IsStruct(wdecl) /\ Len(sent) >= 1 /\ sent[1] = AllDefaults(wdecl.items))
        => /\ SubSeq(buf, 1, 2) = <<0, 0>>
           /\ (Len(sent) = 1 => Len(buf) = 2)
           /\ (Len(got) >= 1 => got[1].ok /\ got[1].val = sent[1])

\* C6 (as claimed): two values written one after the other are read back
\* in order by two reads, which leave the cursor at the end of the stream.
C6_BatchFraming ==
    (Len(sent) = 2 /\ Len(got) = 2)
        => /\ got[1].ok /\ ValuesAgree(wdecl, got[1].val, sent[1])
           /\ got[2].ok /\ ValuesAgree(wdecl, got[2].val, sent[2])
           /\ pos = Len(buf)

\* The least element of a non-empty set of numbers.
Min(S) == CHOOSE x \in S : \A y \in S : x <= y

\* MessageV1, MessageV2 and OtherMessageV2 of the tests.
MessageV1 == [data |-> "Struct",
              items |-> <<Plain(0, TyU64), Plain(1, TyOption(TyU64))>>]
MessageV2 == [data |-> "Struct",
              items |-> <<Plain(0, TyU64), Plain(1, TyOption(TyU64)), Plain(2, TyU64)>>]
OtherMessageV2 ==
    [data |-> "Struct",
     items |-> <<Plain(0, TyU64), Plain(1, TyOption(TyU64)),
                 [Plain(2, TyU64) EXCEPT !.optional = TRUE]>>]

\* The required fields of the reader's struct whose ID the loop of result r
\* has not read.
MissingRequired(r) ==
    {i \in 1..Len(derived.r.val) :
        derived.r.val[i].required /\ derived.r.val[i].id[1] \notin Elems(r.ids)}

\* C3: when a struct's decoder has run all the iterations of its loop and
\* the ID of a field it classifies as required is not among the IDs it
\* read, it fails with RequiredButMissing wrapped with the ID of that field
\* (the first such field in declaration order).  In particular MessageV1
\* { f0: 1, f1: None } read as MessageV2 fails with
\* WithField(2, RequiredButMissing).
C3_RequiredEnforced ==
    /\ \A k \in 1..Len(got) :
          (IsStruct(rdecl) /\ got[k].looped /\ MissingRequired(got[k]) # {})
             => /\ ~got[k].ok
                /\ got[k].err =
                     WithField(derived.r.val[Min(MissingRequired(got[k]))].id[1],
                               RequiredButMissing)
    /\ (/\ wdecl = MessageV1 /\ rdecl = MessageV2
        /\ sent = <<(<<U64(1), None>>)>> /\ Len(got) >= 1)
          => ~got[1].ok /\ got[1].err = WithField(2, RequiredButMissing)

\* C3's case: MessageV1 { f0: 1, f1: None } has been read as MessageV2, the
\* loop has run its one iteration and the required field 2 was not read.
C3_Witness ==
    /\ wdecl = MessageV1 /\ rdecl = MessageV2
    /\ sent = <<(<<U64(1), None>>)>>
    /\ Len(got) = 1 /\ got[1].looped /\ got[1].ids = <<0>>
    /\ MissingRequired(got[1]) = {3}

\* The reader's struct is the writer's with one more field, declared last.
Widened ==
    /\ IsStruct(wdecl)
    /\ Len(rdecl.items) = Len(wdecl.items) + 1
    /\ SubSeq(rdecl.items, 1, Len(wdecl.items)) = wdecl.items

\* C4 (as claimed): when the reader's struct is the writer's plus one field
\* that is not required, every value whose bytes the writer's own struct
\* decodes is decoded by the reader's too, with the writer's value in the
\* shared fields and the default in the added one.
C4_WidenOptional ==
    (/\ Widened /\ Len(sent) = 1 /\ Len(got) >= 1
     /\ ~derived.r.val[Len(rdecl.items)].required
     /\ generate_read_body_for_struct(wdecl.items, buf, 0).ok)
        => /\ got[1].ok
           /\ ValuesAgree(wdecl, got[1].val, sent[1])
           /\ got[1].val[Len(rdecl.items)] = AllDefaults(rdecl.items)[Len(rdecl.items)]

\* The same with the shared fields compared to what the writer's own struct
\* decodes from the bytes.
C4_WidenOptionalDecoded ==
    (/\ Widened /\ Len(sent) = 1 /\ Len(got) >= 1
     /\ ~derived.r.val[Len(rdecl.items)].required
     /\ generate_read_body_for_struct(wdecl.items, buf, 0).ok)
        => /\ got[1].ok
           /\ SubSeq(got[1].val, 1, Len(wdecl.items))
                = generate_read_body_for_struct(wdecl.items, buf, 0).val
           /\ got[1].val[Len(rdecl.items)] = AllDefaults(rdecl.items)[Len(rdecl.items)]

\* The writer's struct has the field IDs {0, 1} and the reader's struct is
\* the writer's without the field of ID 1.
Narrowed ==
    /\ IsStruct(wdecl)
    /\ Len(wdecl.items) = 2
    /\ {wdecl.items[1].id, wdecl.items[2].id} = {Some(0), Some(1)}
    /\ Len(rdecl.items) = 1
    /\ rdecl.items[1].id = Some(0)
    /\ rdecl.items[1] \in Elems(wdecl.items)

\* The writer's own struct decodes the stream's first value back.
RoundTrips ==
    LET r == generate_read_body_for_struct(wdecl.items, buf, 0)
    IN r.ok /\ ValuesAgree(wdecl, r.val, sent[1])

\* C5 (as claimed, for the values that the writer's own struct decodes
\* back): a value of a struct with the field IDs {0, 1} is decoded by a
\* struct that declares field 0 only, and field 0 is the value's field 0.
C5_NarrowingSafe ==
    (Narrowed /\ Len(sent) = 1 /\ Len(got) >= 1 /\ RoundTrips)
        => /\ got[1].ok
           /\ ~rdecl.items[1].skip =>
                got[1].val[1] = sent[1][IF wdecl.items[1].id = Some(0) THEN 1 ELSE 2]

\* The ID declared for item i of a type.
DeclaredId(input, i) == input.items[i].id[1]

IdAt(p) == buf[p + 1] + 256 * buf[p + 2]

\* The read with result r found two bytes at its cursor and they are the ID
\* of no variant of the reader's enum.
UnknownVariantRead(r) ==
    /\ IsEnum(rdecl)
    /\ r.from + 2 <= Len(buf)
    /\ \A i \in 1..Len(rdecl.items) : DeclaredId(rdecl, i) # IdAt(r.from)

\* C8: when the two bytes an enum's decoder reads are the ID of none of its
\* variants, it fails with UnexpectedVariant, having consumed these two
\* bytes and nothing else.
C8_UnexpectedVariant ==
    \A k \in 1..Len(got) :
       UnknownVariantRead(got[k])
          => /\ ~got[k].ok
             /\ got[k].err = UnexpectedVariant
             /\ got[k].pos = got[k].from + 2
             /\ k = Len(got) => pos = got[k].from + 2

\* C8's case: a value with a payload was written, and read by an enum that
\* no longer has its variant.
C8_Witness ==
    /\ Len(sent) = 1 /\ Len(got) = 1
    /\ UnknownVariantRead(got[1])
    /\ sent[1].inner # None
    /\ Len(buf) > 2

\* Two items of a declaration carry the same ID.
HasDuplicateId(input) ==
    \E i, j \in 1..Len(input.items) :
       i < j /\ input.items[i].id # None /\ input.items[i].id = input.items[j].id

\* C9: the derive macros panic on every struct in which two fields carry
\* the same ID, a field marked skip included, and on every enum in which two
\* variants carry the same ID, so that no value of such a type is ever
\* written or read; and they panic with "duplicated id" on no type whose
\* IDs are pairwise distinct.
C9_DuplicateIdRejected ==
    /\ ~derived.done => sent = <<>> /\ got = <<>>
    /\ derived.done =>
         /\ HasDuplicateId(wdecl) => derived.w.panic
         /\ derived.w.panic => sent = <<>> /\ got = <<>>
         /\ (derived.w.panic /\ derived.w.msg = "duplicated id")
               => HasDuplicateId(wdecl)

\* C9's case: a struct whose second field is marked skip and carries the ID
\* of the first has been rejected for it.
C9_Witness ==
    /\ derived.done /\ IsStruct(wdecl) /\ Len(wdecl.items) = 2
    /\ wdecl.items[2].skip /\ ~wdecl.items[1].skip
    /\ wdecl.items[1].id = Some(1) /\ wdecl.items[2].id = Some(1)
    /\ derived.w.panic /\ derived.w.msg = "duplicated id"

\* The ID the claim gives item i: the declared one, else the item's index.
ResolvedId(input, i) ==
    IF input.items[i].id # None THEN input.items[i].id[1] ELSE i - 1

\* A declaration the claim accepts: its IDs fit u16 and are pairwise
\* distinct once resolved, and no variant has more than one field.
Resolvable(input) ==
    /\ \A i \in 1..Len(input.items) : ResolvedId(input, i) < 65536
    /\ \A i, j \in 1..Len(input.items) :
          i < j => ResolvedId(input, i) # ResolvedId(input, j)
    /\ IsEnum(input) => \A i \in 1..Len(input.items) : Len(input.items[i].fields) <= 1

\* C10 (as claimed): the generator gives every field and every variant an
\* ID, the declared one or else the item's index, and accepts a declaration
\* without an ID.
C10_ImplicitIds ==
    (derived.done /\ Resolvable(wdecl))
        => /\ ~derived.w.panic
           /\ \A i \in 1..Len(wdecl.items) :
                 derived.w.val[i].id = Some(ResolvedId(wdecl, i))

\* The same for the declarations in which every item declares its ID.
C10_ExplicitIds ==
    (derived.done /\ Resolvable(wdecl)
       /\ \A i \in 1..Len(wdecl.items) : wdecl.items[i].id # None)
        => /\ ~derived.w.panic
           /\ \A i \in 1..Len(wdecl.items) :
                 derived.w.val[i].id = wdecl.items[i].id

\* C11 (as claimed): a field is classified as required exactly when its
\* type is not Option<T> and it is marked neither skip nor optional and has
\* no default expression; so no read fails for the absence of a field that
\* declares a default expression.
C11_RequiredClassification ==
    (derived.done /\ IsStruct(wdecl) /\ ~derived.w.panic)
        => /\ \A i \in 1..Len(wdecl.items) :
                 derived.w.val[i].required
                    <=> ~(\/ IsOption(wdecl.items[i].ty)
                          \/ wdecl.items[i].skip
                          \/ wdecl.items[i].optional
                          \/ wdecl.items[i].default # None)
           /\ \A k \in 1..Len(got) :
                 (~got[k].ok /\ got[k].err.kind = "WithField"
                             /\ got[k].err.inner = RequiredButMissing)
                    => \A i \in 1..Len(rdecl.items) :
                          rdecl.items[i].id = Some(got[k].err.field)
                             => rdecl.items[i].default = None

\* The classification without the default expression among its conditions.
C11_ClassificationWithoutDefault ==
    (derived.done /\ IsStruct(wdecl) /\ ~derived.w.panic)
        => \A i \in 1..Len(wdecl.items) :
              derived.w.val[i].required
                 <=> ~(\/ IsOption(wdecl.items[i].ty)
                       \/ wdecl.items[i].skip
                       \/ wdecl.items[i].optional)

\* C14: with_field on an error that carries no field yields WithField of
\* the given ID and that error, and on an error that carries a field yields
\* the error itself, field ID and inner error unchanged; so tagging twice is
\* tagging once.
C14_WithFieldIdempotent ==
    \A k \in 2..Len(got) :
       got[k].call = "with_field" =>
          LET e == got[k - 1].err
          IN /\ e.kind # "WithField" => got[k].err = WithField(got[k].field_id, e)
             /\ e.kind = "WithField" =>
                   /\ got[k].err = e
                   /\ got[k].err.field = e.field /\ got[k].err.inner = e.inner
             /\ got[k - 1].call = "with_field" => got[k].err = got[k - 1].err

\* C14's case: an error has been tagged with one field ID and then with
\* another one.
C14_Witness ==
    /\ Len(got) = 3
    /\ got[1].call = "raise" /\ got[1].err = RequiredButMissing
    /\ got[2].call = "with_field" /\ got[2].field_id = 1
    /\ got[3].call = "with_field" /\ got[3].field_id = 2
    /\ got[3].err = WithField(1, RequiredButMissing)

\* The length l fits u32.
FitsU32(l) == l[3] = 0 /\ l[4] = 0

\* C15: write_len of a length above u32::MAX fails and writes nothing;
\* write_len of a length up to u32::MAX writes the length's four bytes,
\* least significant first, and read_len of those bytes returns the length.
C15_LengthPrefix ==
    /\ \A k \in 1..Len(sent) :
          sent[k].call = "write_len" =>
             LET l == sent[k].len
                 r == sent[k].res
             IN /\ ~FitsU32(l) => ~r.ok /\ r.bytes = <<>>
                /\ FitsU32(l) =>
                      /\ r.ok
                      /\ r.bytes = <<l[1] % 256, l[1] \div 256, l[2] % 256, l[2] \div 256>>
                      /\ read_len(r.bytes, 0) = Ok(l, 4)
    /\ (/\ Len(sent) >= 1 /\ sent[1].call = "write_len"
        /\ Len(got) >= 1 /\ got[1].call = "read_len")
          => IF FitsU32(sent[1].len)
             THEN got[1].ok /\ got[1].val = sent[1].len /\ got[1].pos = 4
             ELSE Len(sent) = 1 => ~got[1].ok /\ buf = <<>>

\* C15's case: a length above u32::MAX whose lower 32 bits are not zero was
\* refused, then u32::MAX was written, and read_len has returned u32::MAX.
C15_Witness ==
    /\ Len(sent) = 2 /\ Len(got) >= 1
    /\ sent[1].call = "write_len" /\ sent[1].len = <<1, 0, 1, 0>> /\ ~sent[1].res.ok
    /\ sent[2].call = "write_len" /\ sent[2].len = <<65535, 65535, 0, 0>>
    /\ buf = <<255, 255, 255, 255>>
    /\ got[1].call = "read_len" /\ got[1].ok /\ got[1].val = <<65535, 65535, 0, 0>>

\* C16: reading a bool from a stream that has a byte left succeeds, consumes
\* that one byte and returns true exactly when the byte is 1; writing a bool
\* writes the byte 1 for true and the byte 0 for false.
C16_LenientBool ==
    /\ \A k \in 1..Len(got) :
          (got[k].call = "read_bool" /\ got[k].from < Len(buf))
             => /\ got[k].ok
                /\ got[k].pos = got[k].from + 1
                /\ got[k].val = (buf[got[k].from + 1] = 1)
    /\ \A k \in 1..Len(sent) :
          sent[k].call = "write_bool"
             => sent[k].res.bytes = IF sent[k].val THEN <<1>> ELSE <<0>>

\* C16's case: the byte 255 has been read as false and then the byte that
\* writing true has put after it as true.
C16_Witness ==
    /\ Len(sent) = 2 /\ Len(got) = 2
    /\ sent[1].call = "write_all" /\ sent[1].val = 255
    /\ sent[2].call = "write_bool" /\ sent[2].val
    /\ got[1].call = "read_bool" /\ got[1].ok /\ ~got[1].val
    /\ got[2].call = "read_bool" /\ got[2].ok /\ got[2].val /\ pos = 2

\* The bytes the writer's type writes for the first value sent.
Encoded == derived_lbs_write(wdecl, sent[1])

\* An Io error of kind UnexpectedEof, bare or under one WithField.
IsEofError(e) == e = IoEof \/ (e.kind = "WithField" /\ e.inner = IoEof)

\* C13: when the bytes of a value decode under its own type, decoding any
\* strict prefix of them fails with an error that is_eof recognises, an
\* UnexpectedEof bare or under WithField; and is_eof is false for every
\* other error, bare or under WithField.
C13_TruncationIsEof ==
    /\ (/\ Len(sent) = 1 /\ Len(got) >= 1
        /\ Len(buf) < Len(Encoded)
        /\ derived_lbs_read(rdecl, Encoded, 0).ok)
          => /\ buf = SubSeq(Encoded, 1, Len(buf))
             /\ ~got[1].ok
             /\ IsEofError(got[1].err)
             /\ is_eof(got[1].err)
    /\ \A k \in 1..Len(got) :
          (~got[k].ok /\ ~IsEofError(got[k].err)) => ~is_eof(got[k].err)
    /\ \A e \in BareErrors \ {IoEof} :
          ~is_eof(e) /\ \A a \in FieldIds : ~is_eof(WithField(a, e))

\* C13's case: the stream was cut inside the value of field 0 of a struct
\* whose whole encoding decodes, and the read has failed with the
\* UnexpectedEof under WithField(0, ..).
C13_Witness ==
    /\ IsStruct(wdecl) /\ Len(sent) = 1 /\ Len(got) = 1
    /\ derived_lbs_read(rdecl, Encoded, 0).ok
    /\ Len(buf) = Len(Encoded) - 1 /\ Len(buf) > 4
    /\ got[1].err = WithField(0, IoEof)

\* The two bytes of a u16, least significant first.
LE16(n) == <<n % 256, n \div 256>>

RECURSIVE ExpectedPairs(_, _, _)
\* The (field ID, value) pairs of the fields from the i-th on: one for every
\* field that is not marked skip and whose value must be written.
ExpectedPairs(fields, v, i) ==
    IF i > Len(fields) THEN <<>>
    ELSE (IF ~fields[i].skip /\ lbs_must_write(fields[i].ty, v[i])
          THEN LE16(fields[i].id[1]) \o lbs_write(fields[i].ty, v[i])
          ELSE <<>>)
         \o ExpectedPairs(fields, v, i + 1)

\* C17: the bytes of a struct value are the 16-bit count of its fields that
\* are not marked skip and whose value must be written, followed by the
\* (16-bit ID, value) pairs of exactly those fields in declaration order; a
\* field marked skip is neither counted nor written.
C17_RecordLayout ==
    (IsStruct(wdecl) /\ Len(sent) = 1)
        => /\ Encoded =
                LE16(Cardinality({i \in 1..Len(wdecl.items) :
                                     /\ ~wdecl.items[i].skip
                                     /\ lbs_must_write(wdecl.items[i].ty, sent[1][i])}))
                \o ExpectedPairs(wdecl.items, sent[1], 1)
           /\ buf = SubSeq(Encoded, 1, Len(buf))

\* C17's case: a struct whose first field is marked skip and holds true and
\* whose second field holds the u64 1 has been written as the count 1 and
\* the pair of field 1.
C17_Witness ==
    /\ IsStruct(wdecl) /\ Len(wdecl.items) = 2 /\ Len(sent) = 1
    /\ wdecl.items[1].skip /\ wdecl.items[1].ty = TyBool
    /\ ~wdecl.items[2].skip /\ wdecl.items[2].ty = TyU64
    /\ sent[1] = <<TRUE, U64(1)>>
    /\ buf = <<1, 0, 1, 0, 1, 0, 0, 0, 0, 0, 0, 0>>

\* C19 (as claimed): lbs_is_default is false for every Box and every Range,
\* an empty range included, so a field of such a type is always written.
C19_NeverDefaultKinds ==
    (IsStruct(wdecl) /\ Len(sent) = 1)
        => \A i \in 1..Len(wdecl.items) :
              (IsBox(wdecl.items[i].ty) \/ IsRange(wdecl.items[i].ty))
                 => /\ ~lbs_is_default(wdecl.items[i].ty, sent[1][i])
                    /\ ~wdecl.items[i].skip =>
                          i \in Elems(written_fields(wdecl.items, derived.w.val, sent[1]))

\* The bytes the claim gives a value of a derived type: the field count 0
\* for a StructTwo whose fields are all default, the variant ID 0 for the
\* default variant of EnumOne.
NestedBytes(ty, x) ==
    IF ty = TyStructTwo /\ x = <<(<<>>), None>> THEN <<0, 0>>
    ELSE IF ty = TyEnumOne /\ x.variant = 1 THEN <<0, 0>>
    ELSE lbs_write(ty, x)

\* The byte sequence part occurs in the byte sequence whole after its first
\* two bytes.
OccursAfterCount(part, whole) ==
    \E off \in 2..(Len(whole) - Len(part)) :
       SubSeq(whole, off + 1, off + Len(part)) = part

RECURSIVE IsLBSError(_)
\* The values of LBSError.
IsLBSError(e) ==
    \/ e.kind \in {"RequiredButMissing", "UnexpectedVariant", "InvalidTimestamp",
                   "InvalidChar", "Io", "Parsing"}
    \/ e.kind = "WithField" /\ IsLBSError(e.inner)

\* C12 (as claimed): whatever the bytes, a read returns a value or a value
\* of LBSError; it never panics.
C12_DecodeTotal ==
    \A k \in 1..Len(got) : got[k].ok \/ IsLBSError(got[k].err)

\* The same for the reads that do not read a Duration.
C12_DecodeTotalWithoutDuration ==
    (\A i \in 1..Len(rdecl.items) :
        IF IsStruct(rdecl) THEN rdecl.items[i].ty # TyDuration
        ELSE rdecl.items[i].fields \notin {<<TyDuration>>, <<TySystemTime>>})
       => \A k \in 1..Len(got) : got[k].ok \/ IsLBSError(got[k].err)

\* C18: after a successful read of a struct every field marked skip holds
\* its default expression, or its type's default when it declares none; and
\* a read that has met no ID but those of fields marked skip has assigned
\* nothing and consumed nothing but the count and the IDs.
C18_SkippedOnDecode ==
    \A k \in 1..Len(got) :
       (IsStruct(rdecl) /\ got[k].ok) =>
          /\ \A i \in 1..Len(rdecl.items) :
                rdecl.items[i].skip => got[k].val[i] = AllDefaults(rdecl.items)[i]
          /\ (\A n \in 1..Len(got[k].ids) :
                 \E i \in 1..Len(rdecl.items) :
                    rdecl.items[i].skip /\ rdecl.items[i].id = Some(got[k].ids[n]))
                => /\ got[k].val = AllDefaults(rdecl.items)
                   /\ got[k].pos = got[k].from + 2 + 2 * Len(got[k].ids)

\* C18's case: the ID of a field marked skip, declared with default(1), was
\* on the wire with the bytes of a value after it, and the read has
\* succeeded with the field at 1.
C18_Witness ==
    /\ IsStruct(rdecl) /\ Len(rdecl.items) = 1
    /\ rdecl.items[1].skip /\ rdecl.items[1].default = Some(<<"1">>)
    /\ buf = <<1, 0, 0, 0, 255, 255, 255, 255, 255, 255, 255, 255>>
    /\ Len(got) = 1 /\ got[1].ok /\ got[1].ids = <<0>>
    /\ got[1].val = <<U64(1)>> /\ pos = 4

\* Field i of the reader's struct has a read arm for this ID.
KnownField(i, id) == ~rdecl.items[i].skip /\ rdecl.items[i].id = Some(id)

\* The ID matches none of the fields of the reader's struct that have an arm.
UnknownId(id) == \A i \in 1..Len(rdecl.items) : ~KnownField(i, id)

RECURSIVE IdPos(_, _)
\* Where the j-th iteration of read k finds its ID when an unknown ID costs
\* its own two bytes and a known one its two bytes and its value's.
IdPos(k, j) ==
    IF j = 1 THEN got[k].from + 2
    ELSE IF UnknownId(got[k].ids[j - 1]) THEN IdPos(k, j - 1) + 2
    ELSE LET i == CHOOSE f \in 1..Len(rdecl.items) : KnownField(f, got[k].ids[j - 1])
         IN lbs_read(rdecl.items[i].ty, buf, IdPos(k, j - 1) + 2).pos

\* C21: in every read of a struct each iteration takes its ID from the two
\* bytes right after the previous iteration, which for an unknown ID are the
\* two bytes right after that ID; a loop that ends has read as many IDs as
\* the count says and, when its last ID is unknown, leaves the cursor right
\* after it; a field whose ID was not read stays at its initial value; and
\* when the first pair written is unknown to the reader and is not the last,
\* the second ID is read from the first pair's value bytes.
C21_UnknownIdConsumesNothing ==
    \A k \in 1..Len(got) :
       IsStruct(rdecl) =>
          LET r == got[k]
              n == Len(r.ids)
          IN /\ \A j \in 1..n :
                   /\ IdPos(k, j) + 2 <= Len(buf)
                   /\ r.ids[j] = IdAt(IdPos(k, j))
             /\ r.looped => n = IdAt(r.from)
             /\ (r.looped /\ n > 0 /\ UnknownId(r.ids[n]))
                   => r.pos = IdPos(k, n) + 2
             /\ r.ok => \A i \in 1..Len(rdecl.items) :
                          (\A j \in 1..n : ~KnownField(i, r.ids[j]))
                             => r.val[i] = AllDefaults(rdecl.items)[i]
             /\ (k = 1 /\ IsStruct(wdecl) /\ Len(sent) = 1 /\ n >= 2
                 /\ UnknownId(r.ids[1]))
                   => LET w == written_fields(wdecl.items,
                                              gather_struct_meta(wdecl.items).val,
                                              sent[1])
                          value == lbs_write(wdecl.items[w[1]].ty, sent[1][w[1]])
                      IN /\ r.ids[1] = DeclaredId(wdecl, w[1])
                         /\ Len(value) > 0
                         /\ r.ids[2] = IdAt(4)
                         /\ 4 < 4 + Len(value)

\* C21's case: the writer's first field is unknown to the reader and is not
\* the last pair written; the loop has run both its iterations and the
\* second ID it has read is not the ID of the second pair written.
C21_Witness ==
    /\ IsStruct(wdecl) /\ Len(wdecl.items) = 2 /\ Len(sent) = 1
    /\ rdecl.items = <<wdecl.items[2]>>
    /\ Len(got) >= 1 /\ got[1].looped /\ Len(got[1].ids) = 2
    /\ got[1].ids[1] = DeclaredId(wdecl, 1)
    /\ UnknownId(got[1].ids[1])
    /\ got[1].ids[2] # DeclaredId(wdecl, 2)

\* The field of the reader's struct whose arm the last ID of read k selects.
LastField(k) ==
    CHOOSE f \in 1..Len(rdecl.items) : KnownField(f, got[k].ids[Len(got[k].ids)])

\* The read of the value that follows the last ID of read k.
LastValue(k) ==
    lbs_read(rdecl.items[LastField(k)].ty, buf, IdPos(k, Len(got[k].ids)) + 2)

\* The last ID that read k has read is a known field's and the read of its
\* value has returned an error.
ValueFailed(k) ==
    /\ IsStruct(rdecl)
    /\ got[k].ids # <<>>
    /\ ~UnknownId(got[k].ids[Len(got[k].ids)])
    /\ ~LastValue(k).ok
    /\ LastValue(k).err.kind # "panic"

\* C22: when the read of a known field's value returns an error, the read
\* of the struct returns that error, under the field's ID unless it carries
\* a field already; the loop stops there, with the cursor where the failed
\* read has left it; no value is returned; and no required check is run.
C22_FailFast ==
    \A k \in 1..Len(got) :
       ValueFailed(k) =>
          LET r == got[k]
              id == r.ids[Len(r.ids)]
              e == LastValue(k).err
          IN /\ ~r.ok
             /\ r.err = IF e.kind = "WithField" THEN e
                        ELSE [kind |-> "WithField", field |-> id, inner |-> e]
             /\ ~r.looped
             /\ r.pos = LastValue(k).pos
             /\ "val" \notin DOMAIN r
             /\ (e.kind # "WithField") => r.err.inner # RequiredButMissing

\* C22's case: the stream counts more than one pair and the struct has two
\* required fields; the value of the first, a String, is not UTF-8; the read
\* has returned the Parsing error under field 0 without reading a second ID
\* and without reporting field 1 missing.
C22_Witness ==
    /\ IsStruct(rdecl) /\ Len(rdecl.items) = 2
    /\ rdecl.items[1].ty = TyString /\ ~rdecl.items[1].skip
    /\ rdecl.items[2].ty = TyU64 /\ ~rdecl.items[2].skip
    /\ rdecl.items[2].default = None
    /\ Len(got) >= 1 /\ ValueFailed(1)
    /\ IdAt(0) > 1
    /\ got[1].ids = <<0>>
    /\ got[1].err.kind = "WithField" /\ got[1].err.field = 0
    /\ got[1].err.inner.kind = "Parsing"
    /\ got[1].pos < Len(buf)

RECURSIVE Tags(_)
\* The field IDs that occur in an error, one for each WithField layer.
Tags(e) == IF e.kind = "WithField" THEN <<e.field>> \o Tags(e.inner) ELSE <<>>

\* C23: when the value of field a of a struct is itself a struct and its
\* read returns an error under its own field b, the outer read returns the
\* very same error: b is its only field ID, and a, when it differs from b,
\* occurs nowhere in it; and no error that a read of a derived type returns
\* has more than one WithField layer.
C23_InnermostFieldOnly ==
    \A k \in 1..Len(got) :
       /\ (~got[k].ok /\ got[k].err.kind # "panic") => Len(Tags(got[k].err)) <= 1
       /\ (ValueFailed(k) /\ LastValue(k).err.kind = "WithField") =>
             LET a == got[k].ids[Len(got[k].ids)]
                 q == LastValue(k).err
             IN /\ rdecl.items[LastField(k)].ty = TyStructTwo
                /\ got[k].err = [kind |-> "WithField", field |-> q.field,
                                 inner |-> q.inner]
                /\ Tags(got[k].err) = <<q.field>>
                /\ a # q.field => \A n \in 1..Len(Tags(got[k].err)) :
                                     Tags(got[k].err)[n] # a

\* C23's case: field 0 of the reader's struct is a StructTwo; the stream
\* holds one pair with ID 0 whose value is a StructTwo of no pairs, so that
\* StructTwo's required field 1 is missing; the read has returned
\* RequiredButMissing under field 1.
C23_Witness ==
    /\ IsStruct(rdecl) /\ Len(rdecl.items) >= 1
    /\ rdecl.items[1].ty = TyStructTwo /\ ~rdecl.items[1].skip
    /\ buf = <<1, 0, 0, 0, 0, 0>>
    /\ Len(got) >= 1 /\ got[1].from = 0 /\ got[1].ids = <<0>>
    /\ ValueFailed(1)
    /\ LastValue(1).err = [kind |-> "WithField", field |-> 1,
                           inner |-> RequiredButMissing]
    /\ got[1].err = [kind |-> "WithField", field |-> 1, inner |-> RequiredButMissing]

\* The positions of the fields of the first value sent that its encoder
\* writes, in the order it writes them.
Written == written_fields(wdecl.items, gather_struct_meta(wdecl.items).val, sent[1])

RECURSIVE PairsLen(_)
\* The number of bytes of the first n pairs written: two for each ID and
\* those of each value.
PairsLen(n) ==
    IF n = 0 THEN 0
    ELSE PairsLen(n - 1) + 2
         + Len(lbs_write(wdecl.items[Written[n]].ty, sent[1][Written[n]]))

\* The encoder's part of C24: the count at the head of the bytes of the
\* first value sent is the number of pairs that follow it and that fill the
\* rest of the bytes; each pair starts with the ID of a field that is not
\* marked skip; and no ID is written twice.
EncoderFraming ==
    /\ Len(Encoded) = 2 + PairsLen(Len(Written))
    /\ SubSeq(Encoded, 1, 2) = LE16(Len(Written))
    /\ \A n \in 1..Len(Written) :
          /\ SubSeq(Encoded, PairsLen(n - 1) + 3, PairsLen(n - 1) + 4)
                = LE16(DeclaredId(wdecl, Written[n]))
          /\ ~wdecl.items[Written[n]].skip
          /\ \A m \in 1..Len(Written) :
                DeclaredId(wdecl, Written[m]) = DeclaredId(wdecl, Written[n]) => m = n

\* C24 (as claimed): for a struct value written and read with the same
\* struct, the count written is the number of pairs written after it, every
\* ID written is that of a field not marked skip, no ID is written twice,
\* and the read leaves the cursor at the first byte after the value's bytes.
C24_FramingAgreement ==
    (IsStruct(wdecl) /\ rdecl = wdecl /\ Len(sent) >= 1 /\ buf = Encoded)
        => /\ EncoderFraming
           /\ Len(got) >= 1 => got[1].pos = Len(Encoded)

\* The encoder's part alone.
C24_EncoderFraming ==
    (IsStruct(wdecl) /\ Len(sent) >= 1 /\ buf = Encoded) => EncoderFraming

\* The decoder's part for the structs that have no field of type StructTwo.
C24_DecoderFramingFlat ==
    (IsStruct(wdecl) /\ rdecl = wdecl /\ Len(sent) >= 1 /\ buf = Encoded
     /\ Len(got) >= 1
     /\ \A i \in 1..Len(wdecl.items) : wdecl.items[i].ty # TyStructTwo)
        => got[1].pos = Len(Encoded)

=============================================================================
